---- MODULE Spec2Model ----
(***************************************************************************)
(* A model of autobot/github.py: the GitHubAPI reporter.                   *)
(*                                                                         *)
(* Python values are modelled as follows.                                  *)
(*   str            a tuple of one-character strings, <<"W","I","P">>      *)
(*   None           the tuple None (no string of characters equals it)     *)
(*   list           a sequence                                             *)
(*   {key: value}   a one-key dict, the record [key |-> k, val |-> v]      *)
(*   {**a, **b}     Merge(a, b) on records                                 *)
(*   datetime       an integer number of ticks, TicksPerDay ticks a day    *)
(***************************************************************************)
EXTENDS Integers, Sequences, FiniteSets, TLC

VARIABLES
    call,       \* predicate harness: the last call made, op and arguments
    ret,        \* predicate harness: what that call returned
    remote,     \* the platform: repository name -> [prs, issues]
    now,        \* the last reading of datetime.utcnow()
    proxies,    \* the lazy results report() has handed out
    frame,      \* the running evaluation of report's body, if any
    fetchLog    \* every platform call made so far, in order

vars == <<call, ret, remote, now, proxies, frame, fetchLog>>

(***************************************************************************)
(* Bounds of the model.                                                    *)
(***************************************************************************)
MaxBodyLen == 3     \* longest body text given to check_mentions
TicksPerDay == 2    \* clock resolution: ticks in one day
MaxSlack == 2       \* ticks explored on either side of a day threshold
MaxNow == 2         \* latest clock reading, in ticks
MaxComments == 2    \* longest comment list given to check_comments
MaxItems == 2       \* pull requests plus issues on the platform
MaxCalls == 2       \* calls of report() in one process

(***************************************************************************)
(* Program constants.                                                      *)
(***************************************************************************)
CloseDays == 90     \* 3 * 30, check_close
FollowUpDays == 30  \* 1 * 30, check_follow_up

MentionedLabel == "You've been mentioned here!"
MergeLabel == "Merge this!"
ReviewLabel == "Review this!"
NotConnectedLabel == "Resolve not connected with issue!"
CloseLabel == "Close this!"
FollowUpLabel == "Follow up on this!"
SkipLabel == "Skip this for now!"

(***************************************************************************)
(* Python helpers.                                                         *)
(***************************************************************************)
None == <<"None">>

\* bool(s) for s a str or None
Truthy(s) == s # None /\ s # <<>>

\* s[1:]
Slice1(s) == SubSeq(s, 2, Len(s))

\* [c for c in s]: iterating a str yields its one-character strings
CharsOf(s) == [i \in 1..Len(s) |-> <<s[i]>>]

\* x in xs, for a list xs
InList(x, xs) == \E i \in 1..Len(xs) : xs[i] = x

\* sub in s, for two strs
Contains(sub, s) ==
    \E i \in 1..(Len(s) - Len(sub) + 1) : SubSeq(s, i, i + Len(sub) - 1) = sub

\* {**a, **b}
Merge(a, b) ==
    [k \in (DOMAIN a) \cup (DOMAIN b) |-> IF k \in DOMAIN b THEN b[k] ELSE a[k]]

\* [user.login for user in users]
LoginsOf(users) == [i \in 1..Len(users) |-> users[i].login]

\* {key: val}
Dict(k, v) == [key |-> k, val |-> v]

\* (t1 - t0).days: whole days, rounded towards minus infinity
Days(t1, t0) == (t1 - t0) \div TicksPerDay

WIP == <<"W", "I", "P">>
RFC == <<"R", "F", "C">>

(***************************************************************************)
(* The predicate checks.                                                   *)
(***************************************************************************)
check_mentions(m, maintainers) ==
    LET stripped == IF Truthy(m.body)
                    THEN [i \in 1..Len(m.body) |-> Slice1(CharsOf(m.body)[i])]
                    ELSE <<>>
        mentions == SelectSeq(maintainers,
                        LAMBDA login : Truthy(m.body) /\ InList(login, stripped))
    IN  IF mentions # <<>> THEN <<Dict(MentionedLabel, mentions)>> ELSE <<>>

\* pr is the pull request as pr.refresh() returns it
check_mergeable(pr, maintainers) ==
    IF pr.mergeable THEN <<Dict(MergeLabel, maintainers)>> ELSE <<>>

\* check_review naming everyone asked for a review once a maintainer is
check_review_all(pr, maintainers) ==
    LET requested_reviewers ==
            SelectSeq(maintainers,
                LAMBDA login : InList(login, LoginsOf(pr.requested_reviewers)))
    IN  IF requested_reviewers # <<>>
        THEN <<Dict(ReviewLabel, LoginsOf(pr.requested_reviewers))>>
        ELSE <<>>

check_review(pr, maintainers) ==
    LET requested_reviewers ==
            SelectSeq(maintainers,
                LAMBDA login : InList(login, LoginsOf(pr.requested_reviewers)))
    IN  IF requested_reviewers # <<>>
        THEN <<Dict(ReviewLabel, requested_reviewers)>>
        ELSE <<>>

check_if_connected_with_issue(pr, maintainers) ==
    IF pr.issue = None THEN <<Dict(NotConnectedLabel, maintainers)>> ELSE <<>>

\* check_close with the boundary day left out: > for >=
check_close_after(pr, maintainers, utcnow) ==
    IF Days(utcnow, pr.updated_at) > CloseDays
    THEN <<Dict(CloseLabel, maintainers)>>
    ELSE <<>>

\* utcnow is what datetime.utcnow() returns inside the check
check_close(pr, maintainers, utcnow) ==
    IF Days(utcnow, pr.updated_at) >= CloseDays
    THEN <<Dict(CloseLabel, maintainers)>>
    ELSE <<>>

\* check_follow_up asking for the title "WIP" itself: == for in
check_follow_up_title(pr, maintainers, utcnow) ==
    IF pr.title = WIP /\ Days(utcnow, pr.updated_at) >= FollowUpDays
    THEN <<Dict(FollowUpLabel, maintainers)>>
    ELSE <<>>

check_follow_up(pr, maintainers, utcnow) ==
    IF Contains(WIP, pr.title) /\ Days(utcnow, pr.updated_at) >= FollowUpDays
    THEN <<Dict(FollowUpLabel, maintainers)>>
    ELSE <<>>

check_labels(issue, maintainers) ==
    IF SelectSeq(issue.labels, LAMBDA label : label.name = RFC) # <<>>
    THEN <<Dict(SkipLabel, maintainers)>>
    ELSE <<>>

\* check_comments looking at the first comment: comments[0] for comments[-1]
check_comments_first(issue, maintainers) ==
    LET comments == issue.comments
    IN  IF comments # <<>> /\ ~InList(comments[1].user.login, maintainers)
        THEN <<Dict(FollowUpLabel, maintainers)>>
        ELSE <<>>

check_comments(issue, maintainers) ==
    LET comments == issue.comments
    IN  IF comments # <<>>
           /\ ~InList(comments[Len(comments)].user.login, maintainers)
        THEN <<Dict(FollowUpLabel, maintainers)>>
        ELSE <<>>

comment_filters == <<"check_mentions">>

pr_filters ==
    <<"check_mergeable", "check_review", "check_if_connected_with_issue",
      "check_mentions", "check_close", "check_follow_up">>

\* issue_filters with its first two checks in the other order
issue_filters_swapped == <<"check_comments", "check_labels", "check_mentions">>

issue_filters == <<"check_labels", "check_comments", "check_mentions">>

\* f(self, subject, maintainers) for f the filter called name; clock[name] is
\* what datetime.utcnow() returns inside that filter
ApplyFilter(name, subject, maintainers, clock) ==
    CASE name = "check_mentions" -> check_mentions(subject, maintainers)
      [] name = "check_mergeable" -> check_mergeable(subject, maintainers)
      [] name = "check_review" -> check_review(subject, maintainers)
      [] name = "check_if_connected_with_issue" ->
            check_if_connected_with_issue(subject, maintainers)
      [] name = "check_close" ->
            check_close(subject, maintainers, clock["check_close"])
      [] name = "check_follow_up" ->
            check_follow_up(subject, maintainers, clock["check_follow_up"])
      [] name = "check_labels" -> check_labels(subject, maintainers)
      [] name = "check_comments" -> check_comments(subject, maintainers)

\* res = []; for f in filters: res += f(self, subject, maintainers)
RECURSIVE RunFilters(_, _, _, _)
RunFilters(filters, subject, maintainers, clock) ==
    IF filters = <<>>
    THEN <<>>
    ELSE ApplyFilter(Head(filters), subject, maintainers, clock)
            \o RunFilters(Tail(filters), subject, maintainers, clock)

NoClock == [check_close |-> 0, check_follow_up |-> 0]

(***************************************************************************)
(* The info extractors.                                                    *)
(***************************************************************************)
fetch_comment_info(comment) ==
    [url |-> comment.html_url,
     creation_date |-> comment.created_at,
     user |-> [name |-> comment.user.login, url |-> comment.user.url]]

fetch_pr_info(pr) ==
    [id |-> pr.number,
     url |-> pr.html_url,
     title |-> pr.title,
     creation_date |-> pr.created_at,
     description |-> pr.body,
     state |-> pr.state,
     user |-> [name |-> pr.user.login, url |-> pr.user.url],
     related_issue |-> pr.issue_url]

fetch_issue_info(issue) ==
    [id |-> issue.number,
     url |-> issue.html_url,
     title |-> issue.title,
     creation_date |-> issue.created_at,
     description |-> issue.body,
     state |-> issue.state,
     labels |-> [i \in 1..Len(issue.labels) |->
                    [name |-> issue.labels[i].name,
                     color |-> issue.labels[i].color,
                     url |-> issue.labels[i].url]],
     user |-> [name |-> issue.user.login, url |-> issue.user.url]]

fetch_repo_info(repo) ==
    [url |-> repo.clone_url,
     creation_date |-> repo.created_at,
     description |-> repo.description]

(***************************************************************************)
(* The reports of a comment, a pull request and an issue.                  *)
(***************************************************************************)
comment_report(comment, maintainers) ==
    RunFilters(comment_filters, comment, maintainers, NoClock)

\* The loop "for comment in comments: report = comment_report(...);
\* nodes.append({**{"actions": report}, **fetch_comment_info(comment)})
\* if report else None"
CommentNodes(comments, maintainers) ==
    LET kept == SelectSeq(comments,
                    LAMBDA c : comment_report(c, maintainers) # <<>>)
    IN  [i \in 1..Len(kept) |->
            Merge([actions |-> comment_report(kept[i], maintainers)],
                  fetch_comment_info(kept[i]))]

\* res.append({key: nodes}) if nodes else None
Group(key, nodes) == IF nodes # <<>> THEN <<Dict(key, nodes)>> ELSE <<>>

pr_report(pr, maintainers, clock) ==
    RunFilters(pr_filters, pr, maintainers, clock)
        \o Group("review_comments", CommentNodes(pr.review_comments, maintainers))
        \o Group("issue_comments", CommentNodes(pr.issue_comments, maintainers))

issue_report(issue, maintainers) ==
    RunFilters(issue_filters, issue, maintainers, NoClock)
        \o Group("comments", CommentNodes(issue.comments, maintainers))

(***************************************************************************)
(* Platform objects, as the client library hands them over.                *)
(***************************************************************************)
al == <<"a", "l">>
bo == <<"b", "o">>
cy == <<"c", "y">>
zed == <<"z", "e", "d">>     \* an account that maintains nothing

User(login) == [login |-> login, url |-> <<"users">> \o login]

Comment(n, login, body) ==
    [html_url |-> <<"comment", n>>, created_at |-> 0,
     user |-> User(login), body |-> body]

Label(name) == [name |-> name, color |-> <<"f", "f">>, url |-> <<"labels">> \o name]

PullRequest(n, state, title, body, updated_at, mergeable, reviewers, linked, rcs, ics) ==
    [number |-> n, html_url |-> <<"pull", n>>, title |-> title,
     created_at |-> updated_at, body |-> body, state |-> state,
     user |-> User(zed), issue_url |-> <<"issues", n>>,
     updated_at |-> updated_at, mergeable |-> mergeable,
     requested_reviewers |-> [i \in 1..Len(reviewers) |-> User(reviewers[i])],
     issue |-> linked,
     review_comments |-> rcs, issue_comments |-> ics]

Issue(n, state, body, labels, comments) ==
    [number |-> n, html_url |-> <<"issues", n>>, title |-> <<"b", "u", "g">>,
     created_at |-> 0, body |-> body, state |-> state,
     labels |-> [i \in 1..Len(labels) |-> Label(labels[i])],
     user |-> User(zed), comments |-> comments]

\* All sequences over S of length at most n
SeqsUpTo(S, n) == UNION {[1..k -> S] : k \in 0..n}

(***************************************************************************)
(* The predicate harness: Init draws one call, and the call's action       *)
(* applies the predicate to it.                                            *)
(***************************************************************************)
NotCalled == [done |-> FALSE]

Returned(value) == [done |-> TRUE, value |-> value]

BodyChars == {"@", "a", "l", " "}
Bodies == {None} \cup SeqsUpTo(BodyChars, MaxBodyLen)

\* Account names; the empty name is no GitHub account, and is the only name
\* the code's comparison in check_mentions can match
MentionLogins == {<<"a">>, <<"l">>, al, <<>>}
MentionMaintainers == {ms \in SeqsUpTo(MentionLogins, 2) :
                            \A i, j \in 1..Len(ms) : i # j => ms[i] # ms[j]}

MaintainerLists == {<<al, bo>>, <<cy>>, <<>>}

\* updated_at around each threshold, for a clock that reads 0..MaxNow
UpdatedAts ==
    {s - d * TicksPerDay :
        d \in {0, FollowUpDays, CloseDays}, s \in (0 - MaxSlack)..MaxSlack}

Titles == {<<"f", "i", "x">>, WIP, <<"[">> \o WIP \o <<"]">>, <<"W", "I", "p">>}

Clocks == [{"check_close", "check_follow_up"} -> 0..MaxNow]

CommentLists ==
    {[i \in 1..Len(authors) |-> Comment(i, authors[i], <<"o", "k">>)] :
        authors \in SeqsUpTo({al, bo, zed}, MaxComments)}

HarnessPRs ==
    {PullRequest(1, "open", title, body, updated_at, mergeable, reviewers,
                 linked, rcs, ics) :
        title \in Titles, body \in {None, <<"@">> \o al},
        updated_at \in UpdatedAts, mergeable \in BOOLEAN,
        reviewers \in {<<>>, <<zed, bo>>}, linked \in {None, <<"issue">>},
        rcs \in {<<>>, <<Comment(1, zed, <<"@">> \o al)>>},
        ics \in {<<>>, <<Comment(2, al, <<"@">> \o bo)>>}}

HarnessIssues ==
    {Issue(5, "open", body, labels, comments) :
        body \in {None, <<"@">> \o bo},
        labels \in {<<>>, <<RFC>>, <<<<"b", "u", "g">>, RFC>>, <<<<"r", "f", "c">>>>},
        comments \in CommentLists}

Calls ==
    {[op |-> "check_mentions", m |-> [body |-> b], maintainers |-> ms] :
        b \in Bodies, ms \in MentionMaintainers}
    \cup
    {[op |-> "check_close", pr |-> [updated_at |-> u], maintainers |-> ms,
      utcnow |-> t] :
        u \in UpdatedAts, ms \in MaintainerLists, t \in 0..MaxNow}
    \cup
    {[op |-> "check_comments", issue |-> [comments |-> cs], maintainers |-> ms] :
        cs \in CommentLists, ms \in MaintainerLists}
    \cup
    {[op |-> "pr_report", pr |-> pr, maintainers |-> ms, clock |-> ck] :
        pr \in HarnessPRs, ms \in MaintainerLists, ck \in Clocks}
    \cup
    {[op |-> "issue_report", issue |-> i, maintainers |-> ms] :
        i \in HarnessIssues, ms \in MaintainerLists}

IdleFrame == [pc |-> "idle"]

InitPredicates ==
    /\ call \in Calls
    /\ ret = NotCalled
    /\ remote = <<>>
    /\ now = 0
    /\ proxies = <<>>
    /\ frame = IdleFrame
    /\ fetchLog = <<>>

Harness == <<remote, now, proxies, frame, fetchLog>>

CallCheckMentions ==
    /\ call.op = "check_mentions"
    /\ ret = NotCalled
    /\ ret' = Returned(check_mentions(call.m, call.maintainers))
    /\ UNCHANGED <<call, Harness>>

CallCheckClose ==
    /\ call.op = "check_close"
    /\ ret = NotCalled
    /\ ret' = Returned(check_close(call.pr, call.maintainers, call.utcnow))
    /\ UNCHANGED <<call, Harness>>

CallCheckComments ==
    /\ call.op = "check_comments"
    /\ ret = NotCalled
    /\ ret' = Returned(check_comments(call.issue, call.maintainers))
    /\ UNCHANGED <<call, Harness>>

CallPrReport ==
    /\ call.op = "pr_report"
    /\ ret = NotCalled
    /\ ret' = Returned(pr_report(call.pr, call.maintainers, call.clock))
    /\ UNCHANGED <<call, Harness>>

CallIssueReport ==
    /\ call.op = "issue_report"
    /\ ret = NotCalled
    /\ ret' = Returned(issue_report(call.issue, call.maintainers))
    /\ UNCHANGED <<call, Harness>>

NextPredicates ==
    \/ CallCheckMentions
    \/ CallCheckClose
    \/ CallCheckComments
    \/ CallPrReport
    \/ CallIssueReport

SpecPredicates == InitPredicates /\ [][NextPredicates]_vars

(***************************************************************************)
(* The platform of the report machine: two repositories, each with a list  *)
(* of pull requests and a list of issues, MaxItems of them altogether.     *)
(***************************************************************************)
RepoNames == {"r1", "r2"}

\* half a day short of CloseDays when the clock reads 0
AlmostStale == 1 - CloseDays * TicksPerDay
Stale == 0 - (CloseDays + 1) * TicksPerDay

Ok == <<"o", "k">>
At(login) == <<"@">> \o login

PRKinds ==
    {\* nothing to report: a reviewer who maintains nothing, a quiet comment
     PullRequest(0, "open", <<"f", "i", "x">>, None, 0, FALSE, <<zed>>,
                 <<"issue">>, <<Comment(1, zed, Ok)>>, <<>>),
     \* closed, and everything to report were it open
     PullRequest(0, "closed", WIP, At(al), Stale, TRUE, <<al, cy>>,
                 None, <<Comment(1, zed, At(al))>>, <<Comment(2, zed, At(cy))>>),
     \* work in progress on the edge of going stale
     PullRequest(0, "open", <<"[">> \o WIP \o <<"]">>, <<>>, AlmostStale, FALSE,
                 <<>>, <<"issue">>, <<>>, <<>>),
     \* mergeable, unlinked, reviewers asked from both repositories' lists
     PullRequest(0, "open", <<"f", "i", "x">>, At(al), 0, TRUE,
                 <<zed, cy, al>>, None, <<Comment(1, al, At(bo))>>,
                 <<Comment(2, cy, Ok)>>)}

IssueKinds ==
    {\* last word by al
     Issue(0, "open", None, <<>>, <<Comment(1, zed, Ok), Comment(2, al, Ok)>>),
     \* closed, and everything to report were it open
     Issue(0, "closed", At(al), <<RFC>>, <<Comment(1, zed, At(al))>>),
     \* an RFC with one comment by an outsider
     Issue(0, "open", None, <<<<"b", "u", "g">>, RFC>>, <<Comment(1, zed, Ok)>>),
     \* last word by cy, who maintains r2 only
     Issue(0, "open", At(bo), <<>>, <<Comment(1, cy, At(al))>>)}

Numbered(item, n) ==
    [item EXCEPT !.number = n, !.html_url = <<item.html_url[1], n>>]

Repo(name, prs, issues) ==
    [name |-> name, clone_url |-> <<"git", name>>, created_at |-> 0,
     description |-> None,
     prs |-> [j \in 1..Len(prs) |-> Numbered(prs[j], j)],
     issues |-> [j \in 1..Len(issues) |-> Numbered(issues[j], Len(prs) + j)]]

\* A placement puts one more item at the end of a repository's list
Placements ==
    {[repo |-> r, list |-> "prs", item |-> x] : r \in RepoNames, x \in PRKinds}
    \cup
    {[repo |-> r, list |-> "issues", item |-> x] : r \in RepoNames, x \in IssueKinds}

Placed(ps, r, list) ==
    LET mine == SelectSeq(ps, LAMBDA pl : pl.repo = r /\ pl.list = list)
    IN  [j \in 1..Len(mine) |-> mine[j].item]

Platform(ps) ==
    [r \in RepoNames |-> Repo(r, Placed(ps, r, "prs"), Placed(ps, r, "issues"))]

Remotes == {Platform(ps) : ps \in SeqsUpTo(Placements, MaxItems)}

\* The argument of report: repository name -> maintainers, in dict order
RepoArgs ==
    {<<[name |-> "r1", maintainers |-> <<al, bo>>],
       [name |-> "r2", maintainers |-> <<cy>>]>>,
     <<[name |-> "r2", maintainers |-> <<cy, al>>]>>}

(***************************************************************************)
(* The report machine: report() hands out a lazy result; the first access  *)
(* to it runs report's body, one loop iteration a step.                    *)
(***************************************************************************)
Raised == [done |-> TRUE, error |-> "raised"]

\* One platform call of the current access, and whether it came back
Fetch(op, repo, n, ok) == [op |-> op, repo |-> repo, item |-> n, ok |-> ok]

\* The platform calls a pull request's report makes, in order
pr_fetches == <<"refresh", "issue", "review_comments", "issue_comments">>

\* The platform calls an issue's report makes, in order, and the one
\* fetch_issue_info makes when the issue has a report
issue_fetches(report) ==
    <<"labels", "comments", "comments">>
        \o (IF report # <<>> THEN <<"labels">> ELSE <<>>)

\* The calls made when the k-th of ops fails (all of ops when k = 0)
Attempted(ops, repo, n, k) ==
    [x \in 1..(IF k = 0 THEN Len(ops) ELSE k) |-> Fetch(ops[x], repo, n, x # k)]

\* The state test left out
SkippedNever(item) == FALSE

\* if item.state != "open": continue
Skipped(item) == item.state # "open"

\* The node appended whether or not it has a report
AppendNodeAlways(nodes, report, info) ==
    Append(nodes, Merge([actions |-> report], info))

\* nodes.append({**{"actions": report}, **info}) if report else None
AppendNode(nodes, report, info) ==
    IF report # <<>>
    THEN Append(nodes, Merge([actions |-> report], info))
    ELSE nodes

\* The failure caught in report's loop, which goes on to the next repository
UnwindSkip(fr) ==
    [frame |-> [fr EXCEPT !.pc = "repo", !.i = @ + 1, !.j = 0, !.res = <<>>,
                          !.nodes = <<>>, !.repo_obj = None],
     ret |-> NotCalled]

\* A failed platform call raises; nothing in report's body catches it, and the
\* exception leaves the body and reaches whoever accessed the result
Unwind(fr) == [frame |-> IdleFrame, ret |-> Raised]

Running == frame.pc # "idle"
Arg == proxies[frame.proxy].arg
Entry == Arg[frame.i]

\* @lazy_func: calling report runs nothing and returns a lazy result
NewProxy(arg) == [arg |-> arg, evaluated |-> FALSE, value |-> None, runs |-> 0]

ReportCallOnce ==
    /\ ~Running
    /\ proxies = <<>>
    /\ \E arg \in RepoArgs :
        /\ proxies' = <<NewProxy(arg)>>
        /\ call' = [op |-> "report", arg |-> arg]
        /\ ret' = Returned([proxy |-> 1])
    /\ UNCHANGED <<remote, now, frame, fetchLog>>

ReportCall ==
    /\ ~Running
    /\ Len(proxies) < MaxCalls
    /\ \E arg \in RepoArgs :
        /\ proxies' = Append(proxies, NewProxy(arg))
        /\ call' = [op |-> "report", arg |-> arg]
        /\ ret' = Returned([proxy |-> Len(proxies) + 1])
    /\ UNCHANGED <<remote, now, frame, fetchLog>>

\* A lazy result that keeps no value: every access runs the body
MustRunAlways(p) == TRUE

\* Whether an access to lazy result p has to run the body
MustRun(p) == ~p.evaluated

\* The first access to a lazy result starts report's body
AccessStart ==
    /\ ~Running
    /\ \E p \in 1..Len(proxies) :
        /\ MustRun(proxies[p])
        /\ call' = [op |-> "access", proxy |-> p]
        /\ frame' = [pc |-> "repo", proxy |-> p, i |-> 1, j |-> 0,
                     repo_obj |-> None, res |-> <<>>, nodes |-> <<>>,
                     repos_nodes |-> <<>>]
    /\ ret' = NotCalled
    /\ fetchLog' = <<>>
    /\ UNCHANGED <<remote, now, proxies>>

\* A later access gets the value the body returned
AccessCached ==
    /\ ~Running
    /\ \E p \in 1..Len(proxies) :
        /\ ~MustRun(proxies[p])
        /\ call' = [op |-> "access", proxy |-> p]
        /\ ret' = Returned(proxies[p].value)
    /\ fetchLog' = <<>>
    /\ UNCHANGED <<remote, now, proxies, frame>>

\* repo_obj = self.GH_CLIENT.repository(self.OWNER, repo)
RepoLookup ==
    /\ frame.pc = "repo"
    /\ frame.i <= Len(Arg)
    /\ \/ /\ fetchLog' = Append(fetchLog, Fetch("repository", Entry.name, 0, TRUE))
          /\ frame' = [frame EXCEPT !.pc = "list_prs",
                                    !.repo_obj = remote[Entry.name]]
          /\ UNCHANGED ret
       \/ /\ fetchLog' = Append(fetchLog, Fetch("repository", Entry.name, 0, FALSE))
          /\ frame' = Unwind(frame).frame
          /\ ret' = Unwind(frame).ret
    /\ UNCHANGED <<call, remote, now, proxies>>

\* res = []; actions = {"prs": []}; for pr in repo.pull_requests():
ListPRs ==
    /\ frame.pc = "list_prs"
    /\ \/ /\ fetchLog' = Append(fetchLog, Fetch("pull_requests", Entry.name, 0, TRUE))
          /\ frame' = [frame EXCEPT !.pc = "prs", !.j = 1, !.res = <<>>,
                                    !.nodes = <<>>]
          /\ UNCHANGED ret
       \/ /\ fetchLog' = Append(fetchLog, Fetch("pull_requests", Entry.name, 0, FALSE))
          /\ frame' = Unwind(frame).frame
          /\ ret' = Unwind(frame).ret
    /\ UNCHANGED <<call, remote, now, proxies>>

SkipPR ==
    /\ frame.pc = "prs"
    /\ frame.j <= Len(frame.repo_obj.prs)
    /\ Skipped(frame.repo_obj.prs[frame.j])
    /\ frame' = [frame EXCEPT !.j = @ + 1]
    /\ UNCHANGED <<call, ret, remote, now, proxies, fetchLog>>

\* report = self.pr_report(pr, maintainers); actions["prs"].append(...)
ReportPR ==
    /\ frame.pc = "prs"
    /\ frame.j <= Len(frame.repo_obj.prs)
    /\ ~Skipped(frame.repo_obj.prs[frame.j])
    /\ LET pr == frame.repo_obj.prs[frame.j]
       IN  \E clock \in Clocks :
            /\ now <= clock["check_close"]
            /\ clock["check_close"] <= clock["check_follow_up"]
            /\ \/ /\ fetchLog' =
                        fetchLog \o Attempted(pr_fetches, Entry.name, pr.number, 0)
                  /\ frame' =
                        [frame EXCEPT
                            !.j = @ + 1,
                            !.nodes = AppendNode(@,
                                        pr_report(pr, Entry.maintainers, clock),
                                        fetch_pr_info(pr))]
                  /\ now' = clock["check_follow_up"]
                  /\ UNCHANGED ret
               \/ \E k \in 1..Len(pr_fetches) :
                    /\ fetchLog' =
                        fetchLog \o Attempted(pr_fetches, Entry.name, pr.number, k)
                    /\ frame' = Unwind(frame).frame
                    /\ ret' = Unwind(frame).ret
                    \* both readings of the clock come after pr.issue()
                    /\ now' = IF k > 2 THEN clock["check_follow_up"] ELSE now
    /\ UNCHANGED <<call, remote, proxies>>

\* res.append(actions) if actions["prs"] else None; actions = {"issues": []};
\* for issue in repo.issues():
ListIssues ==
    /\ frame.pc = "prs"
    /\ frame.j > Len(frame.repo_obj.prs)
    /\ \/ /\ fetchLog' = Append(fetchLog, Fetch("issues", Entry.name, 0, TRUE))
          /\ frame' = [frame EXCEPT !.pc = "issues", !.j = 1,
                                    !.res = @ \o Group("prs", frame.nodes),
                                    !.nodes = <<>>]
          /\ UNCHANGED ret
       \/ /\ fetchLog' = Append(fetchLog, Fetch("issues", Entry.name, 0, FALSE))
          /\ frame' = Unwind(frame).frame
          /\ ret' = Unwind(frame).ret
    /\ UNCHANGED <<call, remote, now, proxies>>

SkipIssue ==
    /\ frame.pc = "issues"
    /\ frame.j <= Len(frame.repo_obj.issues)
    /\ Skipped(frame.repo_obj.issues[frame.j])
    /\ frame' = [frame EXCEPT !.j = @ + 1]
    /\ UNCHANGED <<call, ret, remote, now, proxies, fetchLog>>

\* report = self.issue_report(issue, maintainers); actions["issues"].append(...)
ReportIssue ==
    /\ frame.pc = "issues"
    /\ frame.j <= Len(frame.repo_obj.issues)
    /\ ~Skipped(frame.repo_obj.issues[frame.j])
    /\ LET issue == frame.repo_obj.issues[frame.j]
           report == issue_report(issue, Entry.maintainers)
           ops == issue_fetches(report)
       IN  \/ /\ fetchLog' = fetchLog \o Attempted(ops, Entry.name, issue.number, 0)
              /\ frame' = [frame EXCEPT
                              !.j = @ + 1,
                              !.nodes = AppendNode(@, report, fetch_issue_info(issue))]
              /\ UNCHANGED ret
           \/ \E k \in 1..Len(ops) :
                /\ fetchLog' = fetchLog \o Attempted(ops, Entry.name, issue.number, k)
                /\ frame' = Unwind(frame).frame
                /\ ret' = Unwind(frame).ret
    /\ UNCHANGED <<call, remote, now, proxies>>

\* res.append(actions) if actions["issues"] else None; return res; and, in
\* report: actions["repos"].append({**{"actions": report}, **info}) if report
EndRepo ==
    /\ frame.pc = "issues"
    /\ frame.j > Len(frame.repo_obj.issues)
    /\ LET report == frame.res \o Group("issues", frame.nodes)
       IN  frame' = [frame EXCEPT
                        !.pc = "repo", !.i = @ + 1, !.j = 0, !.res = <<>>,
                        !.nodes = <<>>, !.repo_obj = None,
                        !.repos_nodes = AppendNode(@, report,
                                            fetch_repo_info(frame.repo_obj))]
    /\ UNCHANGED <<call, ret, remote, now, proxies, fetchLog>>

\* res.append(actions) if actions["repos"] else None; return res
ReportReturn ==
    /\ frame.pc = "repo"
    /\ frame.i > Len(Arg)
    /\ LET res == Group("repos", frame.repos_nodes)
       IN  /\ proxies' = [proxies EXCEPT ![frame.proxy] =
                            [@ EXCEPT !.evaluated = TRUE, !.value = res,
                                      !.runs = @ + 1]]
           /\ ret' = Returned(res)
    /\ frame' = IdleFrame
    /\ UNCHANGED <<call, remote, now, fetchLog>>

Evaluate ==
    \/ AccessStart
    \/ AccessCached
    \/ RepoLookup
    \/ ListPRs
    \/ SkipPR
    \/ ReportPR
    \/ ListIssues
    \/ SkipIssue
    \/ ReportIssue
    \/ EndRepo
    \/ ReportReturn

InitReport ==
    /\ call = [op |-> "none"]
    /\ ret = NotCalled
    /\ remote \in Remotes
    /\ now = 0
    /\ proxies = <<>>
    /\ frame = IdleFrame
    /\ fetchLog = <<>>

NextReport == ReportCallOnce \/ Evaluate

SpecReport == InitReport /\ [][NextReport]_vars

\* The platforms of the lazy-call specification: r2 with at most one item, a
\* closed one or one whose report depends on the clock or on the maintainers
LazyRemotes ==
    {Platform(ps) :
        ps \in SeqsUpTo({pl \in Placements :
                            /\ pl.repo = "r2"
                            /\ \/ pl.item.state = "closed"
                               \/ pl.list = "prs" /\ Contains(WIP, pl.item.title)
                               \/ pl.list = "issues" /\ pl.item.labels = <<>>}, 1)}

InitLazy ==
    /\ call = [op |-> "none"]
    /\ ret = NotCalled
    /\ remote \in LazyRemotes
    /\ now = 0
    /\ proxies = <<>>
    /\ frame = IdleFrame
    /\ fetchLog = <<>>

NextLazy == ReportCall \/ Evaluate

SpecLazy == InitLazy /\ [][NextLazy]_vars

(***************************************************************************)
(* Claims about the predicate checks (SpecPredicates).                     *)
(***************************************************************************)
NameChars == BodyChars \ {"@", " "}

\* body holds the token @login: an "@", the login, and then no further
\* character of a name
HasToken(body, login) ==
    /\ login # <<>>
    /\ \E i \in 1..Len(body) :
        /\ body[i] = "@"
        /\ i + Len(login) <= Len(body)
        /\ SubSeq(body, i + 1, i + Len(login)) = login
        /\ \/ i + Len(login) = Len(body)
           \/ body[i + Len(login) + 1] \notin NameChars

AccountNames(maintainers) == \A i \in 1..Len(maintainers) : maintainers[i] # <<>>

\* C1: on a non-empty body, check_mentions returns "You've been mentioned
\* here!" exactly when the body holds a token @login of a maintainer, and
\* its targets are the maintainers so mentioned, in maintainer-list order.
C1_MentionsMatchTokens ==
    (/\ call.op = "check_mentions"
     /\ ret.done
     /\ Truthy(call.m.body)
     /\ AccountNames(call.maintainers))
    => LET matched == SelectSeq(call.maintainers,
                          LAMBDA login : HasToken(call.m.body, login))
       IN  ret.value = IF matched # <<>>
                       THEN <<Dict(MentionedLabel, matched)>>
                       ELSE <<>>

ExactlyCloseDays ==
    /\ call.op = "check_close"
    /\ ret.done
    /\ call.utcnow - call.pr.updated_at = CloseDays * TicksPerDay

\* C5 as stated: a pull request updated exactly 90 days before now gets no
\* "Close this!".
C5_NoCloseAtExactly90Days == ExactlyCloseDays => ret.value = <<>>

\* C5 amended: check_close returns "Close this!" for all maintainers exactly
\* when at least 90 days have passed since updated_at; at exactly 90 days
\* it does.
C5_CloseFromExactly90Days ==
    (call.op = "check_close" /\ ret.done)
    => ret.value =
        IF call.utcnow - call.pr.updated_at >= CloseDays * TicksPerDay
        THEN <<Dict(CloseLabel, call.maintainers)>>
        ELSE <<>>

C5_Witness == ExactlyCloseDays /\ ret.value = <<Dict(CloseLabel, call.maintainers)>>

\* C6: check_comments returns "Follow up on this!" if and only if the issue
\* has a comment and its last comment's author is no maintainer; the targets
\* are then all maintainers; with no comment, or with the last comment a
\* maintainer's, it returns nothing.
C6_FollowUpOnLastComment ==
    (call.op = "check_comments" /\ ret.done)
    => LET cs == call.issue.comments
           ms == {call.maintainers[i] : i \in 1..Len(call.maintainers)}
       IN  /\ (cs = <<>>) => ret.value = <<>>
           /\ (cs # <<>> /\ cs[Len(cs)].user.login \in ms) => ret.value = <<>>
           /\ (cs # <<>> /\ cs[Len(cs)].user.login \notin ms)
                => ret.value = <<Dict(FollowUpLabel, call.maintainers)>>

\* An issue whose first comment is a maintainer's and whose last is not
C6_Witness ==
    /\ call.op = "check_comments"
    /\ ret.done
    /\ Len(call.issue.comments) > 1
    /\ InList(call.issue.comments[1].user.login, call.maintainers)
    /\ ret.value = <<Dict(FollowUpLabel, call.maintainers)>>

WipCall ==
    /\ call.op = "pr_report"
    /\ ret.done
    /\ Contains(WIP, call.pr.title)
    /\ call.clock["check_close"] <= call.clock["check_follow_up"]

\* C10: in one pr_report of a pull request whose title contains "WIP", with
\* a clock that does not go backwards, every "Close this!" is followed,
\* later in the same list, by a "Follow up on this!" with the same targets.
C10_CloseImpliesFollowUp ==
    WipCall
    => \A i \in 1..Len(ret.value) :
        ret.value[i].key = CloseLabel
        => \E j \in (i + 1)..Len(ret.value) :
            ret.value[j] = Dict(FollowUpLabel, ret.value[i].val)

\* A title that holds "WIP" among other characters, closed and followed up
C10_Witness ==
    /\ WipCall
    /\ call.pr.title # WIP
    /\ call.maintainers # <<>>
    /\ \E i \in 1..Len(ret.value) : ret.value[i].key = CloseLabel

(***************************************************************************)
(* Claims about the report machine (SpecReport, SpecLazy).                 *)
(***************************************************************************)
GroupKeys ==
    {"repos", "prs", "issues", "review_comments", "issue_comments", "comments"}

\* The nodes of the group called key in the list res, <<>> when it has none
GroupOf(res, key) ==
    LET found == SelectSeq(res, LAMBDA e : e.key = key)
    IN  IF found = <<>> THEN <<>> ELSE found[1].val

ToSet(xs) == {xs[x] : x \in 1..Len(xs)}

Evaluated == {p \in 1..Len(proxies) : proxies[p].evaluated}

\* The node of repository name in a report, as a set of at most one node
RepoNodes(value, name) ==
    {n \in ToSet(GroupOf(value, "repos")) : n.url = <<"git", name>>}

Mentions(body, maintainers) ==
    Truthy(body) /\ \E x \in 1..Len(maintainers) : HasToken(body, maintainers[x])

MentionsIn(comments, maintainers) ==
    \E x \in 1..Len(comments) : Mentions(comments[x].body, maintainers)

\* No pull-request predicate fires on pr, whatever the clock reads, and no
\* comment of pr mentions a maintainer
QuietPR(pr, maintainers) ==
    /\ ~pr.mergeable
    /\ ToSet(LoginsOf(pr.requested_reviewers)) \cap ToSet(maintainers) = {}
    /\ pr.issue # None
    /\ ~Mentions(pr.body, maintainers)
    /\ pr.updated_at >= 0
    /\ ~MentionsIn(pr.review_comments, maintainers)
    /\ ~MentionsIn(pr.issue_comments, maintainers)

RECURSIVE Pruned(_)
Pruned(res) ==
    \A x \in 1..Len(res) :
        res[x].key \in GroupKeys
        => /\ res[x].val # <<>>
           /\ \A y \in 1..Len(res[x].val) :
                /\ res[x].val[y].actions # <<>>
                /\ Pruned(res[x].val[y].actions)

\* C3: in a report every node has a non-empty actions list and every group
\* is a non-empty list; an open pull request on which no predicate fires and
\* none of whose comments yields an action has no entry in it.
C3_Pruning ==
    \A p \in Evaluated :
        /\ Pruned(proxies[p].value)
        /\ \A e \in ToSet(proxies[p].arg) :
            \A pr \in ToSet(remote[e.name].prs) :
                (pr.state = "open" /\ QuietPR(pr, e.maintainers))
                => \A rn \in RepoNodes(proxies[p].value, e.name) :
                    \A n \in ToSet(GroupOf(rn.actions, "prs")) : n.id # pr.number

\* A repository with a quiet open pull request and a reported one
C3_Witness ==
    \E p \in Evaluated :
        \E e \in ToSet(proxies[p].arg) :
            /\ \E pr \in ToSet(remote[e.name].prs) :
                pr.state = "open" /\ QuietPR(pr, e.maintainers)
            /\ \E rn \in RepoNodes(proxies[p].value, e.name) :
                GroupOf(rn.actions, "prs") # <<>>

\* The item numbered n of repository name
ItemsOf(name, n) ==
    {x \in ToSet(remote[name].prs) \cup ToSet(remote[name].issues) : x.number = n}

\* C4: no platform call is made for a pull request or issue that is not open
\* (so no predicate, each of which starts or follows such a call, ran on it),
\* and none appears in the report.
C4_ClosedItemsUntouched ==
    /\ \A x \in 1..Len(fetchLog) :
        fetchLog[x].item # 0
        => \A it \in ItemsOf(fetchLog[x].repo, fetchLog[x].item) : it.state = "open"
    /\ \A p \in Evaluated :
        \A e \in ToSet(proxies[p].arg) :
            \A rn \in RepoNodes(proxies[p].value, e.name) :
                \A n \in ToSet(GroupOf(rn.actions, "prs"))
                         \cup ToSet(GroupOf(rn.actions, "issues")) :
                    \A it \in ItemsOf(e.name, n.id) : it.state = "open"

\* A closed pull request listed before an open one that is reported
C4_Witness ==
    \E p \in Evaluated :
        \E e \in ToSet(proxies[p].arg) :
            /\ Len(remote[e.name].prs) > 1
            /\ remote[e.name].prs[1].state = "closed"
            /\ \E rn \in RepoNodes(proxies[p].value, e.name) :
                GroupOf(rn.actions, "prs") # <<>>

RECURSIVE Targets(_)
Targets(res) ==
    UNION {IF res[x].key \in GroupKeys
           THEN UNION {Targets(res[x].val[y].actions) : y \in 1..Len(res[x].val)}
           ELSE ToSet(res[x].val) : x \in 1..Len(res)}

\* C7: every target of every action under a repository's node is a
\* maintainer configured for that repository.
C7_TargetsAreMaintainers ==
    \A p \in Evaluated :
        \A e \in ToSet(proxies[p].arg) :
            \A rn \in RepoNodes(proxies[p].value, e.name) :
                Targets(rn.actions) \subseteq ToSet(e.maintainers)

\* Two repositories reported, each asked to review a pull request whose
\* requested reviewers include the other's maintainer and an outsider
C7_Witness ==
    \E p \in Evaluated :
        /\ Len(GroupOf(proxies[p].value, "repos")) = 2
        /\ \A e \in ToSet(proxies[p].arg) :
            \E rn \in RepoNodes(proxies[p].value, e.name) :
                \E n \in ToSet(GroupOf(rn.actions, "prs")) :
                    \E pr \in ItemsOf(e.name, n.id) :
                        /\ GroupOf(n.actions, ReviewLabel) # <<>>
                        /\ ~(ToSet(LoginsOf(pr.requested_reviewers))
                                \subseteq ToSet(e.maintainers))

LastFetchFailed == fetchLog # <<>> /\ ~fetchLog[Len(fetchLog)].ok

\* C8: when a platform call fails, the access ends with the error at the
\* caller and no report value: the body does not go on to later repositories
\* and the lazy result holds nothing.
C8_FailureIsFatal ==
    LastFetchFailed
    => /\ ~Running
       /\ ret = Raised
       /\ call.op = "access"
       /\ ~proxies[call.proxy].evaluated
       /\ proxies[call.proxy].value = None

\* The second repository fails after the first gave something to report
C8_Witness ==
    /\ LastFetchFailed
    /\ Len(proxies[call.proxy].arg) = 2
    /\ fetchLog[Len(fetchLog)].repo = proxies[call.proxy].arg[2].name
    /\ \E x \in 1..Len(fetchLog) : fetchLog[x].op = "refresh"
    /\ \E pr \in ToSet(remote[proxies[call.proxy].arg[1].name].prs) :
        pr.state = "open" /\ pr.mergeable

IssueRank(key) ==
    CASE key = SkipLabel -> 1
      [] key = FollowUpLabel -> 2
      [] key = MentionedLabel -> 3
      [] key = "comments" -> 4
      [] OTHER -> 0

PRRank(key) ==
    CASE key = MergeLabel -> 1
      [] key = ReviewLabel -> 2
      [] key = NotConnectedLabel -> 3
      [] key = MentionedLabel -> 4
      [] key = CloseLabel -> 5
      [] key = FollowUpLabel -> 6
      [] key = "review_comments" -> 7
      [] key = "issue_comments" -> 8
      [] OTHER -> 0

\* The issue of C9's example: open, labelled RFC, one comment, by an outsider,
\* and nobody mentioned
RfcExample(issue, maintainers) ==
    /\ issue.state = "open"
    /\ \E x \in 1..Len(issue.labels) : issue.labels[x].name = RFC
    /\ Len(issue.comments) = 1
    /\ issue.comments[1].user.login \notin ToSet(maintainers)
    /\ ~Mentions(issue.body, maintainers)
    /\ ~MentionsIn(issue.comments, maintainers)

\* C9: an issue node's actions are the fired predicates in the order
\* rfc-label, stale-comment, mentions, each at most once (a pull-request
\* node's: mergeable, review-requested, unlinked, mentions, stale, follow-up);
\* the RFC issue with one outsider's comment gets exactly "Skip this for
\* now!" and "Follow up on this!" for all maintainers, its comment pruned.
C9_ActionsInFilterOrder ==
    /\ \A p \in Evaluated :
        \A e \in ToSet(proxies[p].arg) :
            \A rn \in RepoNodes(proxies[p].value, e.name) :
                /\ \A n \in ToSet(GroupOf(rn.actions, "issues")) :
                    \A x, y \in 1..Len(n.actions) :
                        /\ IssueRank(n.actions[x].key) > 0
                        /\ x < y => IssueRank(n.actions[x].key)
                                        < IssueRank(n.actions[y].key)
                /\ \A n \in ToSet(GroupOf(rn.actions, "prs")) :
                    \A x, y \in 1..Len(n.actions) :
                        /\ PRRank(n.actions[x].key) > 0
                        /\ x < y => PRRank(n.actions[x].key)
                                        < PRRank(n.actions[y].key)
    /\ \A p \in Evaluated :
        \A e \in ToSet(proxies[p].arg) :
            \A issue \in ToSet(remote[e.name].issues) :
                RfcExample(issue, e.maintainers)
                => \E rn \in RepoNodes(proxies[p].value, e.name) :
                    \E n \in ToSet(GroupOf(rn.actions, "issues")) :
                        /\ n.id = issue.number
                        /\ n.actions = <<Dict(SkipLabel, e.maintainers),
                                         Dict(FollowUpLabel, e.maintainers)>>

C9_Witness ==
    \E p \in Evaluated :
        \E e \in ToSet(proxies[p].arg) :
            \E rn \in RepoNodes(proxies[p].value, e.name) :
                \E issue \in ToSet(remote[e.name].issues) :
                    /\ RfcExample(issue, e.maintainers)
                    /\ \E n \in ToSet(GroupOf(rn.actions, "issues")) :
                        /\ n.id = issue.number
                        /\ Len(n.actions) = 2

====
